---- MODULE Spec2Model ----
(***************************************************************************)
(* Model of tools/find_step.py: the two normalizers, the index builder,    *)
(* the lookup, the undefined-step finder and the command line entry point. *)
(* A string is a sequence of one-character strings, so that every regular  *)
(* expression of the source is computed character by character.            *)
(***************************************************************************)
EXTENDS Integers, Sequences, FiniteSets, TLC

VARIABLES
    stepFiles,      \* the *.py files under the working directory, in rglob order
    featureFiles,   \* the *.feature files under the working directory, in rglob order
    args,           \* the parsed command line of the running process
    stdout,         \* what the process has printed, one element per print call
    pc,             \* "start" before main() runs, "exit" after it returned
    inp,            \* the argument of the last direct call of a normalizer
    out,            \* the value that call returned
    fn,             \* which normalizer was called ("none" before the call)
    again           \* TRUE when inp is the value returned by the previous call

vars == <<stepFiles, featureFiles, args, stdout, pc, inp, out, fn, again>>

-----------------------------------------------------------------------------
(* Characters and character classes of Python's re module (ASCII part).    *)

Lowers == <<"a","b","c","d","e","f","g","h","i","j","k","l","m",
            "n","o","p","q","r","s","t","u","v","w","x","y","z">>
Uppers == <<"A","B","C","D","E","F","G","H","I","J","K","L","M",
            "N","O","P","Q","R","S","T","U","V","W","X","Y","Z">>
DigitChars == {"0","1","2","3","4","5","6","7","8","9"}
SpaceChars == {" ", "\t", "\n"}

Range(f) == {f[i] : i \in DOMAIN f}
UpperChars == Range(Uppers)
WordChars == Range(Lowers) \cup Range(Uppers) \cup DigitChars \cup {"_"}

\* \s
IsSpace(c) == c \in SpaceChars
\* \d
IsDigit(c) == c \in DigitChars
\* \w
IsWord(c) == c \in WordChars

\* str.lower() on one character; also the case folding of re.I
ToLower(c) ==
    IF c \in UpperChars
    THEN Lowers[CHOOSE i \in DOMAIN Uppers : Uppers[i] = c]
    ELSE c

RECURSIVE LowerStr(_)
LowerStr(s) == IF s = << >> THEN << >> ELSE <<ToLower(Head(s))>> \o LowerStr(Tail(s))

\* s[i..j] (1-based, inclusive), empty when j < i
Slice(s, i, j) == IF j < i THEN << >> ELSE SubSeq(s, i, j)

\* the literal lit occurs in s at position i
LitAt(s, i, lit) ==
    /\ i >= 1
    /\ i + Len(lit) - 1 <= Len(s)
    /\ SubSeq(s, i, i + Len(lit) - 1) = lit

\* the same, ignoring letter case (re.I)
LitAtI(s, i, lit) ==
    /\ i >= 1
    /\ i + Len(lit) - 1 <= Len(s)
    /\ LowerStr(SubSeq(s, i, i + Len(lit) - 1)) = LowerStr(lit)

\* first position >= i of s that holds no whitespace (Len(s)+1 if none): \s*
RECURSIVE SkipSpace(_, _)
SkipSpace(s, i) ==
    IF i <= Len(s) /\ IsSpace(s[i]) THEN SkipSpace(s, i + 1) ELSE i

\* first position >= i of s that holds no digit: \d+ taken greedily
RECURSIVE SkipDigits(_, _)
SkipDigits(s, i) ==
    IF i <= Len(s) /\ IsDigit(s[i]) THEN SkipDigits(s, i + 1) ELSE i

\* first position >= i of s that holds c, 0 if there is none
RECURSIVE FindChar(_, _, _)
FindChar(s, i, c) ==
    IF i > Len(s) THEN 0
    ELSE IF s[i] = c THEN i
    ELSE FindChar(s, i + 1, c)

\* \b between positions i-1 and i
WordBoundary(s, i) ==
    LET before == i - 1 >= 1 /\ i - 1 <= Len(s) /\ IsWord(s[i - 1])
        after  == i >= 1 /\ i <= Len(s) /\ IsWord(s[i])
    IN  before # after

\* str.strip()
RECURSIVE RStrip(_)
RStrip(s) ==
    IF s # << >> /\ IsSpace(s[Len(s)]) THEN RStrip(SubSeq(s, 1, Len(s) - 1)) ELSE s

Strip(s) == LET t == RStrip(s) IN Slice(t, SkipSpace(t, 1), Len(t))

-----------------------------------------------------------------------------
(* The regular expressions that re.sub is called with.  Each Match...      *)
(* gives the position just after the match that starts at i, or 0 when     *)
(* the expression does not match at i.                                     *)

PH == <<"{", "}">>
DQ == "\""
SQ == "'"
BS == "\\"

\* "[^"]*"  and  '[^']*'
MatchQuoted(q, s, i) ==
    IF i <= Len(s) /\ s[i] = q
    THEN LET j == FindChar(s, i + 1, q) IN IF j = 0 THEN 0 ELSE j + 1
    ELSE 0

\* \b\d+(\.\d+)?\b
MatchNumber(s, i) ==
    IF ~(i <= Len(s) /\ IsDigit(s[i]) /\ WordBoundary(s, i)) THEN 0
    ELSE LET e == SkipDigits(s, i)
             f == IF e + 1 <= Len(s) /\ s[e] = "." /\ IsDigit(s[e + 1])
                  THEN SkipDigits(s, e + 1) ELSE 0
         IN  IF f # 0 /\ WordBoundary(s, f) THEN f
             ELSE IF WordBoundary(s, e) THEN e
             ELSE 0

\* \s+
MatchSpaces(s, i) ==
    IF i <= Len(s) /\ IsSpace(s[i]) THEN SkipSpace(s, i) ELSE 0

\* \{[^}]+\}
MatchBrace(s, i) ==
    IF i <= Len(s) /\ s[i] = "{"
    THEN LET j == FindChar(s, i + 1, "}") IN IF j > i + 1 THEN j + 1 ELSE 0
    ELSE 0

\* \(\\?d\+\)
MatchIntGroup(s, i) ==
    IF LitAt(s, i, <<"(", BS, "d", "+", ")">>) THEN i + 5
    ELSE IF LitAt(s, i, <<"(", "d", "+", ")">>) THEN i + 4
    ELSE 0

\* \(\\?d\+\.\d\+\) : after the dot the expression has \d, one digit
MatchDecGroup(s, i) ==
    LET k == IF LitAt(s, i, <<"(", BS, "d", "+", ".">>) THEN i + 5
             ELSE IF LitAt(s, i, <<"(", "d", "+", ".">>) THEN i + 4
             ELSE 0
    IN  IF k # 0 /\ k + 2 <= Len(s) /\ IsDigit(s[k]) /\ s[k + 1] = "+" /\ s[k + 2] = ")"
        THEN k + 3
        ELSE 0

MatchEnd(re, s, i) ==
    CASE re = "dquote"   -> MatchQuoted(DQ, s, i)
      [] re = "squote"   -> MatchQuoted(SQ, s, i)
      [] re = "number"   -> MatchNumber(s, i)
      [] re = "spaces"   -> MatchSpaces(s, i)
      [] re = "brace"    -> MatchBrace(s, i)
      [] re = "intgroup" -> MatchIntGroup(s, i)
      [] re = "decgroup" -> MatchDecGroup(s, i)

\* re.sub(re, repl, s): leftmost non-overlapping matches, scanned from i
RECURSIVE SubFrom(_, _, _, _)
SubFrom(re, repl, s, i) ==
    IF i > Len(s) THEN << >>
    ELSE LET e == MatchEnd(re, s, i)
         IN  IF e > i THEN repl \o SubFrom(re, repl, s, e)
             ELSE <<s[i]>> \o SubFrom(re, repl, s, i + 1)

ReSub(re, repl, s) == SubFrom(re, repl, s, 1)

-----------------------------------------------------------------------------
(* normalize_gherkin                                                       *)

GherkinKeywords ==
    << <<"F","e","a","t","u","r","e">>, <<"S","c","e","n","a","r","i","o">>,
       <<"G","i","v","e","n">>, <<"W","h","e","n">>, <<"T","h","e","n">>,
       <<"A","n","d">> >>

\* re.sub(r'^(Feature|Scenario|Given|When|Then|And)\s+', '', s, flags=re.I)
StripKeyword(s) ==
    LET hits == {k \in DOMAIN GherkinKeywords :
                    /\ LitAtI(s, 1, GherkinKeywords[k])
                    /\ Len(s) > Len(GherkinKeywords[k])
                    /\ IsSpace(s[Len(GherkinKeywords[k]) + 1])}
    IN  IF hits = {} THEN s
        ELSE LET k == CHOOSE k \in hits : \A h \in hits : k <= h
             IN  Slice(s, SkipSpace(s, Len(GherkinKeywords[k]) + 1), Len(s))

normalize_gherkin(s) ==
    LET s1 == Strip(s)
        s2 == StripKeyword(s1)
        s3 == ReSub("dquote", <<DQ>> \o PH \o <<DQ>>, s2)
        s4 == ReSub("squote", <<SQ>> \o PH \o <<SQ>>, s3)
        s5 == ReSub("number", PH, s4)
        s6 == ReSub("spaces", <<" ">>, s5)
    IN  Strip(s6)

-----------------------------------------------------------------------------
(* normalize_pattern                                                       *)

\* re.sub(r'^[ruRU]\s*', '', pat)
StripPrefix(pat) ==
    IF pat # << >> /\ pat[1] \in {"r", "u", "R", "U"}
    THEN Slice(pat, SkipSpace(pat, 2), Len(pat))
    ELSE pat

\* pat[1:-1] when pat starts and ends with the same quote character
Unquote(pat) ==
    IF pat # << >> /\ ( (pat[1] = DQ /\ pat[Len(pat)] = DQ)
                     \/ (pat[1] = SQ /\ pat[Len(pat)] = SQ) )
    THEN Slice(pat, 2, Len(pat) - 1)
    ELSE pat

normalize_pattern(pat) ==
    LET p1 == Strip(pat)
        p2 == StripPrefix(p1)
        p3 == Unquote(p2)
        p4 == ReSub("brace", PH, p3)
        p5 == ReSub("intgroup", PH, p4)
        p6 == ReSub("decgroup", PH, p5)
        p7 == ReSub("dquote", <<DQ>> \o PH \o <<DQ>>, p6)
        p8 == ReSub("squote", <<SQ>> \o PH \o <<SQ>>, p7)
        p9 == ReSub("spaces", <<" ">>, p8)
    IN  Strip(p9)

-----------------------------------------------------------------------------
(* Files.  A file is [path, readable, text]; read_text raises for a file   *)
(* that is not readable, and such a file offers no text to the program.    *)

\* text.splitlines(), for texts whose only line terminator is "\n"
RECURSIVE SplitLines(_)
SplitLines(text) ==
    IF text = << >> THEN << >>
    ELSE LET j == FindChar(text, 1, "\n")
         IN  IF j = 0 THEN <<text>>
             ELSE <<Slice(text, 1, j - 1)>> \o SplitLines(Slice(text, j + 1, Len(text)))

\* the text of a file written line by line
RECURSIVE JoinLines(_)
JoinLines(lines) ==
    IF lines = << >> THEN << >>
    ELSE Head(lines) \o <<"\n">> \o JoinLines(Tail(lines))

\* the keyword alternation shared by both decorator expressions
DecoratorKeywords ==
    << <<"g","i","v","e","n">>, <<"w","h","e","n">>, <<"t","h","e","n">>,
       <<"s","t","e","p">>, <<"a","n","d">> >>

\* STEP_DECORATOR_RE tried at position i: \s*@(given|when|then|step|and)\s*\(
MatchDecoratorHead(text, i) ==
    LET a == SkipSpace(text, i)
    IN  /\ a <= Len(text)
        /\ text[a] = "@"
        /\ \E k \in DOMAIN DecoratorKeywords :
              /\ LitAtI(text, a + 1, DecoratorKeywords[k])
              /\ LET p == SkipSpace(text, a + 1 + Len(DecoratorKeywords[k]))
                 IN  p <= Len(text) /\ text[p] = "("

\* STEP_DECORATOR_RE.search(text): with re.M, ^ is the start of any line
SearchDecorator(text) ==
    \E i \in 1..Len(text) :
        /\ (i = 1 \/ text[i - 1] = "\n")
        /\ MatchDecoratorHead(text, i)

is_step_file(f) ==
    IF ~f.readable THEN FALSE ELSE SearchDecorator(f.text)

\* the paths of rglob("*.py") that is_step_file accepts, in rglob order
find_step_files(files) == SelectSeq(files, is_step_file)

\* last position of s that holds c, 0 if there is none
RECURSIVE FindLast(_, _, _)
FindLast(s, i, c) ==
    IF i < 1 THEN 0
    ELSE IF s[i] = c THEN i
    ELSE FindLast(s, i - 1, c)

\* re.match(r'^\s*@(?P<kw>given|when|then|step|and)\((?P<pat>.+)\)', line, re.I)
MatchDecoratorLine(line) ==
    LET a    == SkipSpace(line, 1)
        hits == {k \in DOMAIN DecoratorKeywords :
                    /\ a <= Len(line)
                    /\ line[a] = "@"
                    /\ LitAtI(line, a + 1, DecoratorKeywords[k])
                    /\ LitAt(line, a + 1 + Len(DecoratorKeywords[k]), <<"(">>)}
        k    == CHOOSE k \in hits : TRUE
        open == a + 1 + Len(DecoratorKeywords[k])
        shut == FindLast(line, Len(line), ")")
    IN  IF hits # {} /\ shut >= open + 2
        THEN [ok |-> TRUE, kw |-> Slice(line, a + 1, open - 1),
              pat |-> Slice(line, open + 1, shut - 1)]
        ELSE [ok |-> FALSE, kw |-> << >>, pat |-> << >>]

\* a plausible slip: enumerate(...) without start=1
StepEntryZeroBased(path, i, m) ==
    LET raw == Strip(m.pat)
    IN  [file |-> path, line |-> i - 1, raw |-> raw,
         normalized |-> normalize_pattern(raw), keyword |-> LowerStr(m.kw)]

\* the entry appended for line i (1-based) of the file at path, m its match
StepEntry(path, i, m) ==
    LET raw == Strip(m.pat)
    IN  [file |-> path, line |-> i, raw |-> raw,
         normalized |-> normalize_pattern(raw), keyword |-> LowerStr(m.kw)]

\* the loop over the lines of one step file, from line i on
RECURSIVE ScanStepLines(_, _, _)
ScanStepLines(path, lines, i) ==
    IF i > Len(lines) THEN << >>
    ELSE LET m == MatchDecoratorLine(lines[i])
         IN  (IF m.ok THEN <<StepEntry(path, i, m)>> ELSE << >>)
             \o ScanStepLines(path, lines, i + 1)

\* the loop over the step files
RECURSIVE ScanStepFiles(_)
ScanStepFiles(files) ==
    IF files = << >> THEN << >>
    ELSE LET f == Head(files)
         IN  (IF ~f.readable THEN << >>
              ELSE ScanStepLines(f.path, SplitLines(f.text), 1))
             \o ScanStepFiles(Tail(files))

build_index(files) == ScanStepFiles(find_step_files(files))

-----------------------------------------------------------------------------
(* find_match.  The result is << >> for None and <<e>> for the entry e.    *)

RECURSIVE FirstEqual(_, _, _)
FirstEqual(idx, targ, i) ==
    IF i > Len(idx) THEN << >>
    ELSE IF idx[i].normalized = targ THEN <<idx[i]>>
    ELSE FirstEqual(idx, targ, i + 1)

\* a plausible slip: the loop keeps the last equal entry instead of returning
RECURSIVE LastEqual(_, _, _)
LastEqual(idx, targ, i) ==
    IF i < 1 THEN << >>
    ELSE IF idx[i].normalized = targ THEN <<idx[i]>>
    ELSE LastEqual(idx, targ, i - 1)

find_match_last(files, gherkin_line) ==
    LET idx == build_index(files)
    IN  LastEqual(idx, normalize_gherkin(gherkin_line), Len(idx))

find_match(files, gherkin_line) ==
    FirstEqual(build_index(files), normalize_gherkin(gherkin_line), 1)

NoValue == [type |-> "none", items |-> << >>]

\* print("Searching for normalized line:", targ) in find_match
find_match_print(gherkin_line) ==
    << [kind |-> "text", text |-> normalize_gherkin(gherkin_line), value |-> NoValue] >>

-----------------------------------------------------------------------------
(* list_undefined                                                          *)

StepWords ==
    << <<"G","i","v","e","n">>, <<"W","h","e","n">>, <<"T","h","e","n">>,
       <<"A","n","d">>, <<"B","u","t">> >>

\* re.search(r'\b(Given|When|Then|And|But)\b', line)
SearchStepWord(line) ==
    \E i \in 1..Len(line) : \E k \in DOMAIN StepWords :
        /\ LitAt(line, i, StepWords[k])
        /\ WordBoundary(line, i)
        /\ WordBoundary(line, i + Len(StepWords[k]))

RECURSIVE ScanFeatureLines(_, _, _, _)
ScanFeatureLines(path, lines, i, normalized_set) ==
    IF i > Len(lines) THEN << >>
    ELSE LET norm == normalize_gherkin(lines[i])
         IN  (IF SearchStepWord(lines[i]) /\ norm # << >> /\ norm \notin normalized_set
              THEN << [feature_file |-> path, line |-> i,
                       text |-> Strip(lines[i]), normalized |-> norm] >>
              ELSE << >>)
             \o ScanFeatureLines(path, lines, i + 1, normalized_set)

RECURSIVE ScanFeatureFiles(_, _)
ScanFeatureFiles(features, normalized_set) ==
    IF features = << >> THEN << >>
    ELSE LET f == Head(features)
         IN  (IF ~f.readable THEN << >>
              ELSE ScanFeatureLines(f.path, SplitLines(f.text), 1, normalized_set))
             \o ScanFeatureFiles(Tail(features), normalized_set)

\* a plausible slip: a phrase already reported is not reported again
RECURSIVE DropRepeated(_, _)
DropRepeated(es, seen) ==
    IF es = << >> THEN << >>
    ELSE IF Head(es).normalized \in seen THEN DropRepeated(Tail(es), seen)
    ELSE <<Head(es)>> \o DropRepeated(Tail(es), seen \cup {Head(es).normalized})

list_undefined_dedup(files, features) ==
    LET idx == build_index(files)
        normalized_set == {idx[k].normalized : k \in DOMAIN idx}
    IN  DropRepeated(ScanFeatureFiles(features, normalized_set), {})

list_undefined(files, features) ==
    LET idx == build_index(files)
        normalized_set == {idx[k].normalized : k \in DOMAIN idx}
    IN  ScanFeatureFiles(features, normalized_set)

-----------------------------------------------------------------------------
(* main.  args.line is << >> when --line is absent and <<s>> when it is    *)
(* given with the string s.                                                *)

JsonNull == [type |-> "null", items |-> << >>]
JsonObject(e) == [type |-> "object", items |-> <<e>>]
JsonArray(es) == [type |-> "array", items |-> es]

\* print(json.dumps(v, ensure_ascii=False)) for a list v
PrintJsonList(es) == << [kind |-> "json", text |-> << >>, value |-> JsonArray(es)] >>

\* print(json.dumps(v, ensure_ascii=False)) for v an entry or None
PrintJsonOptional(r) ==
    << [kind |-> "json", text |-> << >>,
        value |-> IF r = << >> THEN JsonNull ELSE JsonObject(r[1])] >>

\* parser.print_help()
PrintHelpText == << [kind |-> "help", text |-> << >>, value |-> NoValue] >>

\* truth value of args.line in "if args.line:"
LineGiven(a) == a.line # << >> /\ a.line[1] # << >>

NoArgs == [index |-> FALSE, line |-> << >>, undefined |-> FALSE]

-----------------------------------------------------------------------------
(* The bounded world the model is explored in.                             *)

MaxStepLines == 2       \* lines in the step files of a directory, together
MaxFeatureLines == 3    \* lines in the feature files of a directory, together
MaxFrags == 2           \* fragments in an argument of a direct normalizer call

\* @given('the user is "{role}"')
SL_role == <<"@","g","i","v","e","n","(",SQ,"t","h","e"," ","u","s","e","r"," ",
             "i","s"," ",DQ,"{","r","o","l","e","}",DQ,SQ,")">>
\* @when('the user is "{name}"')
SL_name == <<"@","w","h","e","n","(",SQ,"t","h","e"," ","u","s","e","r"," ",
             "i","s"," ",DQ,"{","n","a","m","e","}",DQ,SQ,")">>
\* @when("a {n} second delay")
SL_delay == <<"@","w","h","e","n","(",DQ,"a"," ","{","n","}"," ","s","e","c","o","n","d",
              " ","d","e","l","a","y",DQ,")">>
\* @then ('done')
SL_spaced == <<"@","t","h","e","n"," ","(",SQ,"d","o","n","e",SQ,")">>
\* def step_impl(context):
SL_def == <<"d","e","f"," ","s","t","e","p","_","i","m","p","l","(","c","o","n","t","e","x","t",")",":">>

StepLines == {SL_role, SL_name, SL_delay, SL_spaced, SL_def}

\* Given the user is "admin"
GL_admin == <<"G","i","v","e","n"," ","t","h","e"," ","u","s","e","r"," ","i","s"," ",
              DQ,"a","d","m","i","n",DQ>>
\* When a "5" second delay
GL_delay == <<"W","h","e","n"," ","a"," ",DQ,"5",DQ," ","s","e","c","o","n","d"," ",
              "d","e","l","a","y">>
\* Then done
GL_done == <<"T","h","e","n"," ","d","o","n","e">>

\* the values of --line: absent, the empty string, a Gherkin line
LineArgs == { << >>, << << >> >>, <<GL_admin>>, <<GL_delay>>, <<GL_done>> }

\*   Given the user is "admin"
FL_admin == <<" "," ">> \o GL_admin
\*   When the door opens
FL_door == <<" "," ","W","h","e","n"," ","t","h","e"," ","d","o","o","r"," ","o","p","e","n","s">>
\*   But the user is "admin"
FL_but == <<" "," ","B","u","t"," ","t","h","e"," ","u","s","e","r"," ","i","s"," ",
            DQ,"a","d","m","i","n",DQ>>
\* Scenario: log in
FL_scenario == <<"S","c","e","n","a","r","i","o",":"," ","l","o","g"," ","i","n">>

FeatureLines == {FL_admin, FL_door, FL_but, FL_scenario}

\* the sequences of at most n elements of S
SeqsUpTo(S, n) == UNION {[1..k -> S] : k \in 0..n}

\* a file with the given lines; a file without text may also be unreadable
FilesWith(path, lines) ==
    {[path |-> path, readable |-> r, text |-> JoinLines(lines)] :
        r \in (IF lines = << >> THEN BOOLEAN ELSE {TRUE})}

\* the directories of two files that hold at most n lines of S together
Dirs(pathA, pathB, S, n) ==
    UNION { {<<fa, fb>> : fa \in FilesWith(pathA, la), fb \in FilesWith(pathB, lb)} :
            <<la, lb>> \in {p \in SeqsUpTo(S, n) \X SeqsUpTo(S, n) : Len(p[1]) + Len(p[2]) <= n} }

StepDirs == Dirs("features/steps/a.py", "features/steps/b.py", StepLines, MaxStepLines)
FeatureDirs == Dirs("features/a.feature", "features/b.feature", FeatureLines, MaxFeatureLines)

\* a few fixed directories for the side a specification does not vary
SampleStepDirs ==
    { << >>,
      << [path |-> "features/steps/a.py", readable |-> TRUE, text |-> JoinLines(<<SL_def, SL_role>>)] >> }
SampleFeatureDirs ==
    { << [path |-> "features/a.feature", readable |-> TRUE,
          text |-> JoinLines(<<FL_scenario, FL_admin, FL_door>>)] >> }

\* the arguments of the direct normalizer calls: concatenated fragments
Fragments ==
    { <<"G","i","v","e","n"," ">>, <<"W","h","e","n"," ">>, <<"B","u","t"," ">>,
      <<"x">>, <<" ">>, <<"5">>, <<"1","2",".","7","5">>, <<"v","1",".","5">>,
      <<"a","b","c","1","2","3">>, <<"i","t","e","m","_","5">>,
      <<SQ>>, <<DQ>>, <<SQ,"r","u","n",SQ>>,
      <<"(",BS,"d","+",")">>, <<"(",BS,"d","+",BS,".",BS,"d","+",")">> }

RECURSIVE Concat(_)
Concat(ss) == IF ss = << >> THEN << >> ELSE Head(ss) \o Concat(Tail(ss))

\* "a {n} second delay", the argument of when("a {n} second delay")
PatDelay == <<DQ,"a"," ","{","n","}"," ","s","e","c","o","n","d"," ","d","e","l","a","y",DQ>>

Inputs == {Concat(ss) : ss \in SeqsUpTo(Fragments, MaxFrags)} \cup {PatDelay, GL_delay}

-----------------------------------------------------------------------------
(* The program: one run of main() per process.                             *)

InitCommon ==
    /\ args = NoArgs
    /\ stdout = << >>
    /\ pc = "start"
    /\ inp = << >>
    /\ out = << >>
    /\ fn = "none"
    /\ again = FALSE

Init ==
    /\ stepFiles \in StepDirs
    /\ featureFiles \in SampleFeatureDirs
    /\ InitCommon

ArgSets == [index : BOOLEAN, line : LineArgs, undefined : BOOLEAN]

\* if args.index: print(json.dumps(build_index())); return
MainIndex ==
    /\ pc = "start"
    /\ LET printed == PrintJsonList(build_index(stepFiles))
       IN  \E a \in ArgSets :
              /\ a.index
              /\ args' = a
              /\ stdout' = printed
    /\ pc' = "exit"
    /\ UNCHANGED <<stepFiles, featureFiles, inp, out, fn, again>>

\* if args.line: print(json.dumps(find_match(args.line))); return
MainLine ==
    /\ pc = "start"
    /\ \E l \in LineArgs :
          LET printed == find_match_print(l[1])
                         \o PrintJsonOptional(find_match(stepFiles, l[1]))
          IN  \E a \in ArgSets :
                 /\ ~a.index
                 /\ a.line = l
                 /\ LineGiven(a)
                 /\ args' = a
                 /\ stdout' = printed
    /\ pc' = "exit"
    /\ UNCHANGED <<stepFiles, featureFiles, inp, out, fn, again>>

\* if args.undefined: print(json.dumps(list_undefined())); return
MainUndefined ==
    /\ pc = "start"
    /\ LET printed == PrintJsonList(list_undefined(stepFiles, featureFiles))
       IN  \E a \in ArgSets :
              /\ ~a.index
              /\ ~LineGiven(a)
              /\ a.undefined
              /\ args' = a
              /\ stdout' = printed
    /\ pc' = "exit"
    /\ UNCHANGED <<stepFiles, featureFiles, inp, out, fn, again>>

\* parser.print_help()
MainHelp ==
    /\ pc = "start"
    /\ \E a \in ArgSets :
          /\ ~a.index
          /\ ~LineGiven(a)
          /\ ~a.undefined
          /\ args' = a
          /\ stdout' = PrintHelpText
    /\ pc' = "exit"
    /\ UNCHANGED <<stepFiles, featureFiles, inp, out, fn, again>>

Next == MainIndex \/ MainLine \/ MainUndefined \/ MainHelp

Spec == Init /\ [][Next]_vars

\* the undefined-step listing over every feature directory of the bound
InitUndefined ==
    /\ stepFiles \in SampleStepDirs
    /\ featureFiles \in FeatureDirs
    /\ InitCommon

NextUndefined == MainUndefined \/ MainHelp

SpecUndefined == InitUndefined /\ [][NextUndefined]_vars

-----------------------------------------------------------------------------
(* Direct calls of the two normalizers.                                    *)

InitNorm ==
    /\ stepFiles = << >>
    /\ featureFiles = << >>
    /\ args = NoArgs
    /\ stdout = << >>
    /\ pc = "start"
    /\ inp \in Inputs
    /\ out = << >>
    /\ fn = "none"
    /\ again = FALSE

CallNormalizeGherkin ==
    /\ fn = "none"
    /\ fn' = "normalize_gherkin"
    /\ out' = normalize_gherkin(inp)
    /\ UNCHANGED <<stepFiles, featureFiles, args, stdout, pc, inp, again>>

CallNormalizePattern ==
    /\ fn = "none"
    /\ fn' = "normalize_pattern"
    /\ out' = normalize_pattern(inp)
    /\ UNCHANGED <<stepFiles, featureFiles, args, stdout, pc, inp, again>>

\* the same normalizer called on the value it returned
CallAgain ==
    /\ fn # "none"
    /\ ~again
    /\ inp' = out
    /\ out' = (IF fn = "normalize_gherkin" THEN normalize_gherkin(out)
               ELSE normalize_pattern(out))
    /\ again' = TRUE
    /\ UNCHANGED <<stepFiles, featureFiles, args, stdout, pc, fn>>

NextNorm == CallNormalizeGherkin \/ CallNormalizePattern \/ CallAgain

SpecNorm == InitNorm /\ [][NextNorm]_vars

-----------------------------------------------------------------------------
(* Properties.                                                             *)

\* the index of the step files of the current state
Index == build_index(stepFiles)
\* the last thing printed
Printed == stdout[Len(stdout)]
\* main() ran in line-lookup mode, the --line argument being s
LookedUp(s) == pc = "exit" /\ ~args.index /\ args.line = <<s>> /\ s # << >>
\* main() ran in undefined mode
ListedUndefined == pc = "exit" /\ ~args.index /\ ~LineGiven(args) /\ args.undefined
\* the positions of the index idx whose normalized pattern is n
Equal(idx, n) == {k \in DOMAIN idx : idx[k].normalized = n}
Min(S) == CHOOSE k \in S : \A h \in S : k <= h
\* the places <<file, line number>> where a file of dir holds a line of L
Places(dir, L) ==
    UNION { {<<f, i>> : i \in {j \in DOMAIN SplitLines(f.text) : SplitLines(f.text)[j] \in L}} :
            f \in {g \in Range(dir) : g.readable} }
\* the line at a place
LineAt(pl) == SplitLines(pl[1].text)[pl[2]]

\* "a {n} second delay" and 'the user is "{role}"' as captured decorator arguments
PatRole == <<SQ,"t","h","e"," ","u","s","e","r"," ","i","s"," ",DQ,"{","r","o","l","e","}",DQ,SQ>>

(* C1: the decorator argument "a {n} second delay" and the Gherkin line    *)
(* When a "5" second delay normalize to the same string, and a lookup of   *)
(* that line returns the entry of that decorator.                          *)
C1_RoundTripMatched ==
    LookedUp(GL_delay) =>
        LET idx == Index
        IN  \A k \in DOMAIN idx :
                idx[k].raw = PatDelay =>
                    /\ idx[k].normalized = stdout[1].text
                    /\ Printed.value.type = "object"
                    /\ Printed.value.items[1].raw = PatDelay

\* the decorator lines whose pattern has a named placeholder in double quotes
QuotedPlaceholderLines == {SL_role, SL_name}

(* C2 as stated: a lookup of Given the user is "admin" returns the entry   *)
(* built from every decorator line with a quoted named placeholder at that *)
(* position, with its file path and its 1-based line number.               *)
C2_ReturnsThatDecorator ==
    LookedUp(GL_admin) =>
        \A pl \in Places(stepFiles, QuotedPlaceholderLines) :
            /\ Printed.value.type = "object"
            /\ Printed.value.items[1].file = pl[1].path
            /\ Printed.value.items[1].line = pl[2]

(* C2 amended: the lookup returns an entry, namely the first entry of the  *)
(* index whose normalized pattern equals that of the decorator; it is the  *)
(* decorator's own entry (its file path, its 1-based line number) when no  *)
(* earlier entry of the index has the same normalized pattern.             *)
C2_ReturnsFirstOfItsPattern ==
    LookedUp(GL_admin) =>
        LET idx == Index
        IN  \A pl \in Places(stepFiles, QuotedPlaceholderLines) :
                \E k \in DOMAIN idx :
                    LET first == Min(Equal(idx, idx[k].normalized))
                    IN  /\ idx[k].file = pl[1].path
                        /\ idx[k].line = pl[2]
                        /\ Printed.value.type = "object"
                        /\ Printed.value.items[1] = idx[first]
                        /\ Printed.value.items[1].normalized = stdout[1].text
                        /\ (k = first =>
                                /\ Printed.value.items[1].file = pl[1].path
                                /\ Printed.value.items[1].line = pl[2])

\* the decorator stands on line 2 of the second step file and is returned
C2_Witness ==
    /\ LookedUp(GL_admin)
    /\ <<stepFiles[2], 2>> \in Places(stepFiles, {SL_role})
    /\ Printed.value.type = "object"
    /\ Printed.value.items[1].file = "features/steps/b.py"
    /\ Printed.value.items[1].line = 2
    /\ Printed.value.items[1].raw = PatRole

(* C3: a normalizer called on a value it returned gives that value back.   *)
C3_Idempotent == again => out = inp

\* the result list of the undefined mode
Missing == Printed.value.items
\* the positions of Missing that report line i of the file at path
Reports(path, i) ==
    {k \in DOMAIN Missing : Missing[k].feature_file = path /\ Missing[k].line = i}

\* one entry per undefined occurrence, carrying Text(line); none for a defined line
OnePerOccurrence(Text(_)) ==
    LET idx == Index
        normalized_set == {idx[k].normalized : k \in DOMAIN idx}
    IN  \A pl \in Places(featureFiles, FeatureLines) :
            LET path  == pl[1].path
                i     == pl[2]
                line  == LineAt(pl)
            IN  IF SearchStepWord(line)
                THEN IF normalize_gherkin(line) \in normalized_set
                     THEN Reports(path, i) = {}
                     ELSE /\ Cardinality(Reports(path, i)) = 1
                          /\ \A k \in Reports(path, i) : Missing[k].text = Text(line)
                ELSE TRUE

Verbatim(line) == line

(* C4 as stated: exactly one entry per occurrence of an undefined step     *)
(* line, carrying the file path, the 1-based line number and the original  *)
(* line text; no entry for a line whose normalized form is in the index.   *)
C4_OnePerOccurrenceVerbatim ==
    ListedUndefined => OnePerOccurrence(Verbatim)

(* C4 amended: exactly one entry per occurrence of an undefined step line, *)
(* without deduplication, carrying the file path, the 1-based line number  *)
(* and the line text with its leading and trailing whitespace removed; no  *)
(* entry for a line whose normalized form is in the index.                 *)
C4_OnePerOccurrenceStripped ==
    ListedUndefined => OnePerOccurrence(Strip)

\* one undefined phrase on three lines of one file, reported three times
C4_Witness ==
    /\ ListedUndefined
    /\ SplitLines(featureFiles[1].text) = <<FL_door, FL_door, FL_door>>
    /\ Len(Missing) = 3
    /\ \A k \in 1..3 : /\ Missing[k].line = k
                       /\ Missing[k].feature_file = "features/a.feature"
                       /\ Missing[k].text = Strip(FL_door)

\* t starts with a keyword followed by whitespace, in any letter case
StartsWithKeyword(t) ==
    \E w \in Range(StepWords) \cup Range(GherkinKeywords) :
        /\ LitAtI(t, 1, w)
        /\ Len(t) > Len(w)
        /\ IsSpace(t[Len(w) + 1])

(* C5: for each K of Given, When, Then, And, But, in any letter case, and  *)
(* every non-blank t that does not itself start with a keyword,            *)
(* normalize_gherkin(K + " " + t) = normalize_gherkin(t).                  *)
C5_EveryKeywordStripped ==
    (fn = "normalize_gherkin" /\ ~again) =>
        \A k \in DOMAIN StepWords :
            LET n == Len(StepWords[k])
                t == Slice(inp, n + 2, Len(inp))
            IN  (/\ LitAtI(inp, 1, StepWords[k])
                 /\ Len(inp) > n
                 /\ inp[n + 1] = " "
                 /\ Strip(t) # << >>
                 /\ ~StartsWithKeyword(Strip(t)))
                => out = normalize_gherkin(t)

(* C6: in line-lookup mode standard output holds exactly one JSON value,   *)
(* the matched entry or null, for every value of --line.                   *)
C6_OnlyOneJsonValue ==
    (pc = "exit" /\ ~args.index /\ args.line # << >>) =>
        /\ Len(stdout) = 1
        /\ stdout[1].kind = "json"
        /\ stdout[1].value.type \in {"null", "object"}

\* the whitespace-separated tokens of s
RECURSIVE Tokens(_)
Tokens(s) ==
    LET a == SkipSpace(s, 1)
        b == CHOOSE j \in a..(Len(s) + 1) :
                /\ j > Len(s) \/ IsSpace(s[j])
                /\ \A h \in a..(j - 1) : ~IsSpace(s[h])
    IN  IF a > Len(s) THEN << >>
        ELSE <<Slice(s, a, b - 1)>> \o Tokens(Slice(s, b, Len(s)))

\* digits with optionally one decimal point between digits
IsNumericToken(t) ==
    LET e == SkipDigits(t, 1)
    IN  /\ e > 1
        /\ \/ e = Len(t) + 1
           \/ /\ e < Len(t)
              /\ t[e] = "."
              /\ SkipDigits(t, e + 1) = Len(t) + 1

(* C7: a numeric token is replaced in full by one placeholder and every    *)
(* other token is left unchanged, so no placeholder stands for a proper    *)
(* substring of a token (lines without quotes and leading keyword).        *)
C7_WholeTokensOnly ==
    (/\ fn = "normalize_gherkin"
     /\ ~again
     /\ DQ \notin Range(inp)
     /\ SQ \notin Range(inp)
     /\ StripKeyword(Strip(inp)) = Strip(inp)) =>
        /\ Len(Tokens(out)) = Len(Tokens(inp))
        /\ \A i \in DOMAIN Tokens(inp) :
              Tokens(out)[i] = IF IsNumericToken(Tokens(inp)[i]) THEN PH
                               ELSE Tokens(inp)[i]

(* C8: a lookup returns the first entry, in index order, whose normalized  *)
(* pattern equals the normalized line, and the no-match result exactly     *)
(* when no entry has an equal normalized pattern.                          *)
C8_FirstInIndexOrder ==
    \A s \in {l[1] : l \in LineArgs \ {<< >>}} :
        LookedUp(s) =>
            LET idx == Index
                M   == Equal(idx, normalize_gherkin(s))
            IN  IF M = {} THEN Printed.value = JsonNull
                ELSE Printed.value = JsonObject(idx[Min(M)])

\* two definitions in different files normalize alike; the earlier is returned
C8_Witness ==
    /\ LookedUp(GL_admin)
    /\ LET idx == Index
       IN  /\ Cardinality(Equal(idx, stdout[1].text)) = 2
           /\ idx[1].raw # idx[2].raw
           /\ idx[1].file # idx[2].file
           /\ Printed.value = JsonObject(idx[1])

(* C9: a line of a readable step file satisfies the file-level decorator   *)
(* rule if and only if the index holds one entry for that line.            *)
C9_PassesConsistent ==
    (pc = "exit" /\ args.index) =>
        \A pl \in Places(stepFiles, StepLines) :
            MatchDecoratorHead(LineAt(pl), 1)
            <=> Cardinality({k \in DOMAIN Printed.value.items :
                                /\ Printed.value.items[k].file = pl[1].path
                                /\ Printed.value.items[k].line = pl[2]}) = 1

\* the spellings of the two numeric capture groups
GroupTexts ==
    { <<"(",BS,"d","+",")">>, <<"(","d","+",")">>,
      <<"(",BS,"d","+",BS,".",BS,"d","+",")">>, <<"(","d","+",BS,".","d","+",")">> }

(* C10: after normalize_pattern no numeric capture group, integer or       *)
(* decimal, escaped or not, remains in the result.                         *)
C10_NoGroupRemains ==
    (fn = "normalize_pattern" /\ ~again) =>
        \A i \in 1..Len(out) : \A g \in GroupTexts : ~LitAt(out, i, g)

====
